---- MODULE Spec2Model ----
(***************************************************************************)
(* Webhook ingestion, idempotency, fan-out and retry of the Square webhook *)
(* processor.  One ingestion task per delivered Envelope (the              *)
(* processWebhookEvent of the webhook endpoint), one Retry Sweeper (the    *)
(* handler of the retry endpoint with its own processWebhookEvent), the    *)
(* Vercel KV store holding the Processing Records ("event:<id>" keys) and  *)
(* the Failure Ledger (sorted set "failed_events").                        *)
(*                                                                         *)
(* Granularity: JavaScript runs a task without interruption between two    *)
(* awaits, so an action is "the awaited call settles, then the code runs   *)
(* up to the next await".                                                  *)
(***************************************************************************)
EXTENDS Integers, Sequences, FiniteSets, TLC

\* ---------------------------------------------------------------- bounds
MaxTasks == 2       \* deliveries handled by the webhook endpoint
MaxSweeps == 5      \* runs of the retry endpoint that drain a record
MaxFaults == 1      \* store calls that throw
MaxExpiries == 1    \* Processing Records that reach their 24h expiry

\* ------------------------------------------------------ program constants
MaxRetries == 5
DefaultHighValueThreshold == 100

Tasks == 1..MaxTasks
Targets == {"GTM", "CRM", "Notification", "Dashboard"}

\* Envelope types: a string type, a JSON value that is not a string (a
\* number: truthy, without a startsWith method), or no type at all.
NonStringType == "<number>"
NoType == "<absent>"

\* The Envelopes delivered in the model.  An identifier names one Envelope.
EvtOrder == [event_id |-> "evt-1", type |-> "order.created", amount |-> 15000]
EvtOdd == [event_id |-> "evt-2", type |-> NonStringType, amount |-> 0]
EvtNoId == [event_id |-> "", type |-> "order.created", amount |-> 2650]
EvtNoType == [event_id |-> "evt-3", type |-> NoType, amount |-> 0]
Envelopes == {EvtOrder, EvtOdd, EvtNoId, EvtNoType}
Ids == {"evt-1", "evt-2", "evt-3"}

\* process.env: which sink URLs are configured and, in the fan-out runs that
\* vary it, what HIGH_VALUE_THRESHOLD is set to.
Configs == {{"GTM", "Notification"}, {"CRM"}}

VARIABLES
  cfg,          \* configured sink URLs (process.env)
  kv,           \* identifiers that have a Processing Record ("event:<id>")
  ledger,       \* the Failure Ledger, in zrange order
  clock,        \* Date.now() as last read
  tasks,        \* ingestion tasks: processWebhookEvent of the webhook endpoint
  sw,           \* the Retry Sweeper
  sinkCalls,    \* calls made to each sink, per identifier
  enrichCalls,  \* calls made to the Enrichment Gateway, per identifier
  faults,       \* calls on the records and the ledger that threw so far
  expiries,     \* Processing Records expired so far
  sweeps,       \* sweeper runs started so far
  failedRetries, \* per Failure Record: retries of it that returned false
  redistributed, \* identifiers whose distribution the sweeper has invoked
  http          \* per delivery: the request as the handler saw it, and its answer

vars == <<cfg, kv, ledger, clock, tasks, sw, sinkCalls, enrichCalls,
          faults, expiries, sweeps, failedRetries, redistributed, http>>

\* ------------------------------------------------------------ pure helpers

\* type?.startsWith(prefix): undefined (falsy) without a type, a TypeError
\* for a type that is not a string.
TypeRaises(w) == w.type = NonStringType

StartsWith(type, prefix) ==
  CASE prefix = "order." -> type \in {"order.created", "order.updated", "order.fulfilled"}
    [] prefix = "payment." -> type \in {"payment.created", "payment.updated"}
    [] OTHER -> FALSE

\* getOrderValue, in cents (the code divides by 100 and compares with the
\* threshold in dollars; the comparison below is scaled by 100 instead).
getOrderValue(w) ==
  IF w.type # NoType /\ StartsWith(w.type, "order.") /\ w.amount # 0 THEN w.amount
  ELSE IF w.type # NoType /\ StartsWith(w.type, "payment.") /\ w.amount # 0 THEN w.amount
  ELSE 0

\* distributeEvent: the targets pushed before getOrderValue is evaluated ...
TargetsBeforeValue(c) == {g \in {"GTM", "CRM"} : g \in c}

\* Number(process.env.HIGH_VALUE_THRESHOLD) || 100: unset, "0" and a text
\* that is not a number are falsy and give the default.
highValueThreshold(c) ==
  IF "HIGH_VALUE_THRESHOLD=50" \in c THEN 50
  ELSE IF "HIGH_VALUE_THRESHOLD=200" \in c THEN 200
  ELSE DefaultHighValueThreshold

\* A fan-out that alerts from the threshold on, not only above it.
EnabledTargets_AtLeast(c, w) ==
  TargetsBeforeValue(c)
    \cup (IF getOrderValue(w) >= highValueThreshold(c) * 100 /\ "Notification" \in c
          THEN {"Notification"} ELSE {})
    \cup {"Dashboard"}

\* ... and the whole set of targets of an Envelope whose type does not raise.
EnabledTargets(c, w) ==
  TargetsBeforeValue(c)
    \cup (IF getOrderValue(w) > highValueThreshold(c) * 100 /\ "Notification" \in c
          THEN {"Notification"} ELSE {})
    \cup {"Dashboard"}

\* What withTimeout can see of a sink: sendToServerGTM rethrows its errors,
\* sendToCRM and sendHighValueOrderAlert turn theirs into null and reject
\* only by the timer, logToAnalyticsDashboard always returns true.
SinkOutcomes(g) == IF g = "Dashboard" THEN {"fulfilled"} ELSE {"fulfilled", "rejected"}

\* ------------------------------------------------------------------ store

\* A set without the nx flag: it overwrites and always answers OK.
kvSetNX_Overwrite(store, key) == [store |-> store \cup {key}, result |-> "OK"]

\* kv.set(key, value, {nx: true}): null when the key exists.
kvSetNX(store, key) ==
  IF key \in store THEN [store |-> store, result |-> "null"]
  ELSE [store |-> store \cup {key}, result |-> "OK"]

\* A check-and-mark that forgets to look at the result of the set.
checkAndMark_IgnoresResult(store, eventId, call) ==
  IF call = "kv.set throws"
  THEN [store |-> store, isNew |-> TRUE, threw |-> TRUE]
  ELSE [store |-> kvSetNX(store, eventId).store, isNew |-> TRUE, threw |-> FALSE]

\* A check-and-mark whose catch answers "not new".
checkAndMark_FailsClosed(store, eventId, call) ==
  IF call = "kv.set throws"
  THEN [store |-> store, isNew |-> FALSE, threw |-> TRUE]
  ELSE LET r == kvSetNX(store, eventId)
       IN [store |-> r.store, isNew |-> r.result # "null", threw |-> FALSE]

\* checkAndMarkEventProcessed.  Its try holds two store calls: kv.set with
\* nx and, when the set created the key, kv.incr of the counter of the
\* type; the catch answers true whichever of them throws.  A kv.set that
\* throws writes nothing (threw); a kv.incr that throws leaves the record
\* the set has just written and the answer is true, as without the throw.
checkAndMarkEventProcessed(store, eventId, call) ==
  IF call = "kv.set throws"
  THEN [store |-> store, isNew |-> TRUE, threw |-> TRUE]
  ELSE LET r == kvSetNX(store, eventId)
           incrThrows == r.result # "null" /\ call = "kv.incr throws"
       IN [store |-> r.store, isNew |-> r.result # "null" \/ incrThrows, threw |-> FALSE]

\* A duplicate check that never finds the record.
isDuplicateEvent_Never(store, eventId, ok) == FALSE

\* isDuplicateEvent: kv.exists, false when the call throws.
isDuplicateEvent(store, eventId, ok) == IF ok THEN eventId \in store ELSE FALSE

\* logProcessedEvent: an unconditional kv.set; errors are logged.
logProcessedEvent(store, eventId, ok) == IF ok THEN store \cup {eventId} ELSE store

\* The member storeFailedEvent builds (retry_count is always 0).
FailedEvent(w, now) ==
  [event_id |-> w.event_id, event_data |-> w, failed_at |-> now, retry_count |-> 0]

\* Order of the sorted set: by score (the failure time), ties by member
\* (the JSON string starts with event_id).
Before(a, b) ==
  \/ a.failed_at < b.failed_at
  \/ a.failed_at = b.failed_at /\ a.event_id = "evt-1" /\ b.event_id = "evt-2"

InLedger(l, m) == \E i \in 1..Len(l) : l[i] = m

\* A list that takes each new member at its head.
Insert_AtHead(l, m) == <<m>> \o l

\* The sorted set with one more member, at its place.
Insert(l, m) ==
  LET k == Cardinality({i \in 1..Len(l) : Before(l[i], m)})
  IN SubSeq(l, 1, k) \o <<m>> \o SubSeq(l, k + 1, Len(l))

\* A write that leaves two records of one failure, a millisecond apart.
zadd_Twice(l, m) == Insert(Insert(l, m), [m EXCEPT !.failed_at = @ + 1])

\* kv.zadd: a member already present keeps its place (same score).
zadd(l, m) == IF InLedger(l, m) THEN l ELSE Insert(l, m)

\* A storeFailedEvent without its try/catch: the error of kv.zadd rejects
\* the promise the classifier awaits.
storeFailedEvent_NoCatch(l, w, now, ok) ==
  IF w.event_id = "" THEN [ledger |-> l, rejects |-> FALSE]
  ELSE [ledger |-> IF ok THEN zadd(l, FailedEvent(w, now)) ELSE l, rejects |-> ~ok]

\* A storeFailedEvent that repeats a failed kv.zadd until it is accepted.
storeFailedEvent_RetriesWrite(l, w, now, ok) ==
  IF w.event_id = "" THEN [ledger |-> l, rejects |-> FALSE]
  ELSE [ledger |-> zadd(l, FailedEvent(w, now)), rejects |-> FALSE]

\* storeFailedEvent: the record is added to the sorted set, or the store
\* error is logged and the record is lost; the promise resolves either way.
\* An event without event_id is not stored.
storeFailedEvent(l, w, now, ok) ==
  IF w.event_id = "" THEN [ledger |-> l, rejects |-> FALSE]
  ELSE [ledger |-> IF ok THEN zadd(l, FailedEvent(w, now)) ELSE l, rejects |-> FALSE]

\* A removal by event_id instead of by the member string.
zrem_ByEventId(l, m) == SelectSeq(l, LAMBDA x : x.event_id # m.event_id)

\* A removal that puts the record back with its retry count raised.
zrem_Requeue(l, m) ==
  Append(SelectSeq(l, LAMBDA x : x # m), [m EXCEPT !.retry_count = @ + 1])

\* kv.zrem: delete the member equal to the given string.
zrem(l, m) == SelectSeq(l, LAMBDA x : x # m)

\* ------------------------------------------------------------------- Init

IdleTask == [pc |-> "idle", env |-> EvtNoId, threw |-> FALSE, gw |-> "none", ctx |-> "none",
             invoked |-> {}, pend |-> {}, rej |-> {}, outcome |-> "none",
             marks |-> 0, stores |-> 0]

\* Outcomes of a pipeline that ran to its end: every target fulfilled, or
\* some rejected (distribution_partial_failure was logged).
Completed == {"processed", "partial"}

\* A finished task keeps its Envelope, whether its kv.set threw, how it
\* ended, and how many times it called kv.set for the Processing Record
\* (marks) and kv.zadd for the Failure Ledger (stores); its locals are gone.
Done(task, how) == [IdleTask EXCEPT !.pc = "done", !.env = task.env,
                                    !.threw = task.threw, !.outcome = how,
                                    !.marks = task.marks, !.stores = task.stores]

\* A POST whose body parsed and whose signature matched, answered 200: the
\* deliveries that reach processWebhookEvent.
AcceptedRequest == [method |-> "POST", read |-> TRUE, json |-> TRUE, key |-> TRUE,
                    sig |-> "valid", at |-> "end", status |-> 200]

IdleSweeper == [pc |-> "idle", snapshot |-> <<>>, idx |-> 0, success |-> FALSE,
                ctx |-> "none", invoked |-> {}, enriched |-> FALSE,
                results |-> [total |-> 0, success |-> 0, failed |-> 0]]

Init ==
  /\ cfg \in Configs
  /\ kv = {}
  /\ ledger = <<>>
  /\ clock = 0
  /\ tasks = [t \in Tasks |-> IdleTask]
  /\ sw = IdleSweeper
  /\ sinkCalls = [i \in Ids |-> [g \in Targets |-> 0]]
  /\ enrichCalls = [i \in Ids |-> 0]
  /\ faults = 0
  /\ expiries = 0
  /\ sweeps = 0
  /\ failedRetries = [m \in {} |-> 0]
  /\ redistributed = {}
  /\ http = [t \in Tasks |-> AcceptedRequest]

\* A store call either returns or, within the fault budget, throws.
CallOk == {TRUE} \cup (IF faults < MaxFaults THEN {FALSE} ELSE {})
Fault(ok) == faults' = IF ok THEN faults ELSE faults + 1

\* How the store calls of checkAndMarkEventProcessed go; the kv.set on the
\* Processing Record throws within the fault budget.
MarkCalls ==
  {"ok", "kv.incr throws"} \cup (IF faults < MaxFaults THEN {"kv.set throws"} ELSE {})

AddCalls(calls, id, gs) ==
  [calls EXCEPT ![id] = [g \in Targets |-> IF g \in gs THEN @[g] + 1 ELSE @[g]]]

\* --------------------------------------------- Ingestion Controller tasks

\* What the Enrichment Gateway does with the lookups of enrichWebhookData:
\* it answers, it answers with an error, or it never answers.  A type
\* outside the switch of enrichWebhookData makes no lookup.
GatewayOutcomes(w) ==
  IF w.type # NoType /\ (StartsWith(w.type, "order.") \/ StartsWith(w.type, "payment."))
  THEN {"ok", "error", "silent"}
  ELSE {"none"}

\* What enrichWebhookData resolves to: the Envelope with the fetched
\* objects, or the Envelope as it came (the type has no enrichment, the
\* lookups failed and were caught, or its own 7s timers fired).
enrichWebhookData(gw) == IF gw = "ok" THEN "enriched" ELSE "unenriched"

\* An enrichment without any timer: a Gateway that never answers leaves the
\* await pending for ever.
EnrichRace_Unbounded(gw) == IF gw = "silent" THEN {} ELSE {enrichWebhookData(gw)}

\* A race whose loser is still used: the result of a Gateway that answers
\* after the timer becomes the context.
EnrichRace_KeepsLate(gw) == IF gw = "silent" THEN {"enriched"} ELSE {enrichWebhookData(gw)}

\* The 5s race of processWebhookEvent: the timer wins against a Gateway that
\* never answers (5s, before the 7s timers of enrichWebhookData), and the
\* catch leaves enrichedData null.
EnrichRace(gw) == IF gw = "silent" THEN {"null"} ELSE {enrichWebhookData(gw)}

\* A classifier that stores the retryable errors only and drops the rest.
Classify_DropUnknown(error) == IF error = "TransientError" THEN "store" ELSE "drop"

\* The classifier in the catch of processWebhookEvent: a permanent error
\* (ValidationError) is logged and dropped; a retryable one (TransientError,
\* ECONNRESET, ETIMEDOUT) and any other error call storeFailedEvent.
Classify(error) == IF error = "ValidationError" THEN "drop" ELSE "store"

\* Where a task goes when the error reaches the catch.
Caught(task, error) ==
  IF Classify(error) = "drop" THEN Done(task, "invalid") ELSE [task EXCEPT !.pc = "store"]

\* processWebhookEvent is called and runs up to its first await.
Invoked(task, w) ==
  IF w.event_id = ""
  THEN Caught([task EXCEPT !.env = w], "ValidationError")
  ELSE [task EXCEPT !.pc = "check", !.env = w]

\* The handler has answered 200 and calls processWebhookEvent: validation,
\* then the call of checkAndMarkEventProcessed.  A missing event_id raises a
\* ValidationError, which the classifier logs and drops (permanent).
Deliver(t) ==
  /\ tasks[t].pc = "idle"
  /\ IF t = 1 THEN TRUE ELSE tasks[t - 1].pc # "idle"
  /\ \E w \in Envelopes : tasks' = [tasks EXCEPT ![t] = Invoked(@, w)]
  /\ UNCHANGED <<cfg, kv, ledger, clock, sw, sinkCalls, enrichCalls, faults,
                 expiries, sweeps, failedRetries, redistributed, http>>

\* checkAndMarkEventProcessed settles; a duplicate returns, a new event
\* calls enrichWebhookData.
CheckAndMark(t) ==
  /\ tasks[t].pc = "check"
  /\ \E call \in MarkCalls :
       LET id == tasks[t].env.event_id
           r == checkAndMarkEventProcessed(kv, id, call)
       IN /\ kv' = r.store
          /\ Fault(~r.threw)
          /\ IF r.isNew
             THEN /\ \E gw \in GatewayOutcomes(tasks[t].env) :
                       tasks' = [tasks EXCEPT ![t] = [@ EXCEPT !.pc = "enrich",
                                                               !.threw = r.threw,
                                                               !.marks = @ + 1,
                                                               !.gw = gw]]
                  /\ enrichCalls' = [enrichCalls EXCEPT ![id] = @ + 1]
             ELSE /\ tasks' = [tasks EXCEPT ![t] =
                                 Done([@ EXCEPT !.threw = r.threw, !.marks = @ + 1],
                                      "duplicate")]
                  /\ UNCHANGED enrichCalls
  /\ UNCHANGED <<cfg, ledger, clock, sw, sinkCalls, expiries, sweeps, failedRetries,
                 redistributed, http>>

\* The enrichment race settles and distributeEvent runs up to its await of
\* Promise.allSettled: GTM and CRM are pushed, getOrderValue is evaluated
\* (a TypeError for a type that is not a string, which reaches the
\* classifier: neither permanent nor retryable, so storeFailedEvent is
\* called), then Notification and Dashboard are pushed.  The promise of
\* logToAnalyticsDashboard is fulfilled when it is created, so only the other
\* sinks are awaited across events; with none of them invoked, allSettled
\* resolves at once.  When getOrderValue raises, the promises already pushed
\* stay pending with nobody awaiting them.
EnrichSettle(t) ==
  /\ tasks[t].pc = "enrich"
  /\ \E res \in EnrichRace(tasks[t].gw) :
       LET w == tasks[t].env
           gs == IF TypeRaises(w) THEN TargetsBeforeValue(cfg) ELSE EnabledTargets(cfg, w)
       IN /\ sinkCalls' = AddCalls(sinkCalls, w.event_id, gs)
          /\ tasks' = [tasks EXCEPT ![t] =
                         IF TypeRaises(w)
                         THEN Caught([@ EXCEPT !.ctx = res, !.invoked = gs, !.pend = gs],
                                     "TypeError")
                         ELSE IF gs = {"Dashboard"}
                         THEN Done(@, "processed")
                         ELSE [@ EXCEPT !.pc = "dist", !.ctx = res, !.invoked = gs,
                                        !.pend = gs \ {"Dashboard"}]]
  /\ UNCHANGED <<cfg, kv, ledger, clock, sw, enrichCalls, faults, expiries,
                 sweeps, failedRetries, redistributed, http>>

\* A join that rejects with the first rejection (Promise.all): the error
\* would reach the classifier of processWebhookEvent.
allSettled_FailFast(task, g, out) ==
  IF out = "rejected" THEN [task EXCEPT !.pc = "store", !.pend = @ \ {g}]
  ELSE IF task.pend = {g} THEN Done(task, "processed")
  ELSE [task EXCEPT !.pend = @ \ {g}, !.ctx = "none", !.gw = "none"]

\* Promise.allSettled and the code after it: a settled promise leaves the
\* join waiting while others are pending; with the last one distributeEvent
\* logs distribution_partial_failure when a result is rejected and returns,
\* and processWebhookEvent logs webhook_processing_complete.  The Enriched
\* Context was handed to the sinks when they were called and is not read
\* again, so the task drops it here.
allSettled(task, g, out) ==
  LET rejected == IF out = "rejected" THEN task.rej \cup {g} ELSE task.rej
  IN IF task.pend = {g}
     THEN Done(task, IF rejected # {} THEN "partial" ELSE "processed")
     ELSE [task EXCEPT !.pend = @ \ {g}, !.ctx = "none", !.gw = "none",
                      !.rej = rejected]

\* One withTimeout promise settles.
SinkSettle(t, g) ==
  /\ tasks[t].pc = "dist"
  /\ g \in tasks[t].pend
  /\ \E out \in SinkOutcomes(g) :
       tasks' = [tasks EXCEPT ![t] = allSettled(@, g, out)]
  /\ UNCHANGED <<cfg, kv, ledger, clock, sw, sinkCalls, enrichCalls, faults,
                 expiries, sweeps, failedRetries, redistributed, http>>

\* A handler that reports a failed pipeline to the sender.
Reply_ReportsFailure(req, outcome) ==
  IF outcome = "failed" THEN [req EXCEPT !.status = 500] ELSE req

\* What the handler does to its answer when the pipeline ends: nothing.  The
\* response was sent before processWebhookEvent was called, the promise is
\* not awaited and its catch only logs.
Reply(req, outcome) == req

\* storeFailedEvent settles: the record is added to the sorted set, or the
\* store error is logged and the record is lost.  Date.now() may or may not
\* have advanced since the last call of storeFailedEvent read it (clock = 0:
\* there was none).
StoreFailed(t) ==
  /\ tasks[t].pc = "store"
  /\ \E ok \in CallOk, adv \in (IF clock = 0 THEN {1} ELSE {0, 1}) :
       LET r == storeFailedEvent(ledger, tasks[t].env, clock + adv, ok)
       IN /\ clock' = clock + adv
          /\ ledger' = r.ledger
          /\ Fault(ok)
          /\ tasks' = [tasks EXCEPT ![t] =
                         Done([@ EXCEPT !.stores = @ + 1],
                              IF r.rejects THEN "escaped" ELSE "failed")]
  /\ http' = [http EXCEPT ![t] = Reply(@, "failed")]
  /\ UNCHANGED <<cfg, kv, sw, sinkCalls, enrichCalls, expiries, sweeps, failedRetries,
                 redistributed>>

\* A record stored without the ex option: the window ends, the key stays.
Expire_KeepsRecord(id) ==
  /\ id \in kv
  /\ expiries < MaxExpiries
  /\ expiries' = expiries + 1
  /\ UNCHANGED <<cfg, kv, ledger, clock, tasks, sw, sinkCalls, enrichCalls, faults,
                 sweeps, failedRetries, redistributed, http>>

\* The 24h expiry of a Processing Record.
Expire(id) ==
  /\ id \in kv
  /\ expiries < MaxExpiries
  /\ kv' = kv \ {id}
  /\ expiries' = expiries + 1
  /\ UNCHANGED <<cfg, ledger, clock, tasks, sw, sinkCalls, enrichCalls, faults,
                 sweeps, failedRetries, redistributed, http>>

\* ----------------------------------------------------------- Retry Sweeper

Current == sw.snapshot[sw.idx]

\* A loop that takes the same record again.
Advance_Repeats(s) ==
  [s EXCEPT !.pc = "check", !.success = FALSE, !.ctx = "none", !.invoked = {},
            !.enriched = FALSE]

\* The loop of the retry handler moves to the next drained record (and calls
\* isDuplicateEvent for it) or answers with the summary.
Advance(s) ==
  IF s.idx < Len(s.snapshot)
  THEN [s EXCEPT !.pc = "check", !.idx = @ + 1, !.success = FALSE, !.ctx = "none",
                 !.invoked = {}, !.enriched = FALSE]
  ELSE IdleSweeper

\* The key under which http holds the request of the retry endpoint, when
\* the run is followed from its request to its response.
RetryReq == 0

\* The retry handler's answer: status and JSON body.
Respond(h, status, body) ==
  IF RetryReq \in DOMAIN h
  THEN [h EXCEPT ![RetryReq] = [@ EXCEPT !.at = "end", !.status = status, !.body = body]]
  ELSE h

\* After the last drained record the handler answers 200 with the results.
LoopEnd(h, s) ==
  IF s.idx = Len(s.snapshot)
  THEN Respond(h, 200, [success |-> TRUE, results |-> s.results])
  ELSE h

\* getFailedEvents is awaited once the method and the secret were accepted.
Triggered(h) == RetryReq \in DOMAIN h => h[RetryReq].at = "drain"

CountFailedRetry(fr, m) ==
  IF m \in DOMAIN fr THEN [fr EXCEPT ![m] = @ + 1]
  ELSE [x \in DOMAIN fr \cup {m} |-> IF x = m THEN 1 ELSE fr[x]]

\* The retry endpoint is triggered: getFailedEvents (an empty list when the
\* store throws); nothing drained answers {processed: 0}.
SweepStart ==
  /\ sw.pc = "idle"
  /\ sweeps < MaxSweeps
  /\ Triggered(http)
  /\ \E ok \in CallOk :
       LET failedEvents == IF ok THEN ledger ELSE <<>>
       IN /\ Fault(ok)
          /\ sweeps' = IF Len(failedEvents) = 0 THEN sweeps ELSE sweeps + 1
          /\ sw' = IF Len(failedEvents) = 0
                   THEN IdleSweeper
                   ELSE [IdleSweeper EXCEPT !.pc = "check", !.snapshot = failedEvents,
                                            !.idx = 1,
                                            !.results = [total |-> Len(failedEvents),
                                                         success |-> 0, failed |-> 0]]
          /\ http' = IF Len(failedEvents) = 0
                     THEN Respond(http, 200, [success |-> TRUE, processed |-> 0])
                     ELSE http
  /\ UNCHANGED <<cfg, kv, ledger, clock, tasks, sinkCalls, enrichCalls, expiries,
                 failedRetries, redistributed>>

\* isDuplicateEvent settles: a duplicate is a success (removeFailedEvent is
\* called), otherwise enrichWebhookData is called.
RetryCheck ==
  /\ sw.pc = "check"
  /\ \E ok \in CallOk :
       LET id == Current.event_data.event_id
       IN /\ Fault(ok)
          /\ IF isDuplicateEvent(kv, id, ok)
             THEN /\ sw' = [sw EXCEPT !.pc = "remove", !.success = TRUE]
                  /\ UNCHANGED enrichCalls
             ELSE /\ sw' = [sw EXCEPT !.pc = "enrich", !.enriched = TRUE]
                  /\ enrichCalls' = [enrichCalls EXCEPT ![id] = @ + 1]
  /\ UNCHANGED <<cfg, kv, ledger, clock, tasks, sinkCalls, expiries, sweeps,
                 failedRetries, redistributed, http>>

\* enrichWebhookData settles (no race here) and the sweeper's distributeEvent
\* runs.  A TypeError of getOrderValue makes processWebhookEvent return
\* false: the handler counts a failure and, as retry_count < 5, leaves the
\* record as it is.  Otherwise every sink promise is caught, allSettled
\* resolves, logProcessedEvent writes the Processing Record and the retry
\* is a success.
RetryEnrich ==
  /\ sw.pc = "enrich"
  /\ \E gw \in GatewayOutcomes(Current.event_data), ok \in CallOk :
       LET w == Current.event_data
           res == enrichWebhookData(gw)
           gs == IF TypeRaises(w) THEN TargetsBeforeValue(cfg) ELSE EnabledTargets(cfg, w)
           counted == [sw EXCEPT !.ctx = res, !.invoked = gs, !.results.failed = @ + 1]
       IN /\ sinkCalls' = AddCalls(sinkCalls, w.event_id, gs)
          /\ redistributed' = redistributed \cup {w.event_id}
          /\ IF TypeRaises(w)
             THEN /\ sw' = IF Current.retry_count >= MaxRetries
                           THEN [counted EXCEPT !.pc = "remove"]
                           ELSE Advance(counted)
                  /\ http' = IF Current.retry_count >= MaxRetries
                             THEN http
                             ELSE LoopEnd(http, counted)
                  /\ failedRetries' = CountFailedRetry(failedRetries, Current)
                  /\ UNCHANGED <<kv, faults>>
             ELSE /\ sw' = [sw EXCEPT !.pc = "remove", !.success = TRUE, !.ctx = res,
                                      !.invoked = gs]
                  /\ kv' = logProcessedEvent(kv, w.event_id, ok)
                  /\ Fault(ok)
                  /\ UNCHANGED <<failedRetries, http>>
  /\ UNCHANGED <<cfg, ledger, clock, tasks, enrichCalls, expiries, sweeps>>

\* removeFailedEvent settles (a store error is logged, the record stays);
\* a success is counted and the loop goes on.
RetryRemove ==
  /\ sw.pc = "remove"
  /\ \E ok \in CallOk :
       /\ ledger' = IF ok THEN zrem(ledger, Current) ELSE ledger
       /\ Fault(ok)
  /\ LET counted == IF sw.success THEN [sw EXCEPT !.results.success = @ + 1] ELSE sw
     IN /\ sw' = Advance(counted)
        /\ http' = LoopEnd(http, counted)
  /\ UNCHANGED <<cfg, kv, clock, tasks, sinkCalls, enrichCalls, expiries, sweeps,
                 failedRetries, redistributed>>

\* -------------------------------------------------------------------- Next

Next ==
  \/ \E t \in Tasks : Deliver(t)
  \/ \E t \in Tasks : CheckAndMark(t)
  \/ \E t \in Tasks : EnrichSettle(t)
  \/ \E t \in Tasks, g \in Targets : SinkSettle(t, g)
  \/ \E t \in Tasks : StoreFailed(t)
  \/ \E id \in Ids : Expire(id)
  \/ SweepStart
  \/ RetryCheck
  \/ RetryEnrich
  \/ RetryRemove

Spec == Init /\ [][Next]_vars

\* ================================================================== claims

IdOf(t) == tasks[t].env.event_id

\* The task is past its idempotency check ...
Checked(t) ==
  \/ tasks[t].pc \in {"enrich", "dist", "store"}
  \/ tasks[t].pc = "done" /\ tasks[t].outcome \in {"duplicate", "failed"} \cup Completed

\* ... and went on to enrichment and distribution.
Proceeded(t) ==
  \/ tasks[t].pc \in {"enrich", "dist", "store"}
  \/ tasks[t].pc = "done" /\ tasks[t].outcome \in {"failed"} \cup Completed

CheckedOn(id) == {t \in Tasks : IdOf(t) = id /\ Checked(t)}
ProceededOn(id) == {t \in Tasks : IdOf(t) = id /\ Proceeded(t)}

ChecksNow(t) == tasks[t].pc = "check" /\ tasks'[t].pc # "check"

\* Another invocation of the same identifier has already completed its
\* processing.
ProcessedBefore(t) ==
  \E u \in Tasks : u # t /\ IdOf(u) = IdOf(t) /\ tasks[u].pc = "done"
                         /\ tasks[u].outcome \in {"failed"} \cup Completed

ProcessedBeforeNoThrow(t) ==
  \E u \in Tasks : u # t /\ IdOf(u) = IdOf(t) /\ tasks[u].pc = "done"
                         /\ tasks[u].outcome \in {"failed"} \cup Completed
                         /\ ~tasks[u].threw

\* The check step of task t is a no-op that ends the invocation as a
\* duplicate: no enrichment, no sink call, no Failure Record.
NoOpDuplicate(t) ==
  /\ tasks'[t].pc = "done" /\ tasks'[t].outcome = "duplicate"
  /\ tasks'[t].invoked = {}
  /\ enrichCalls' = enrichCalls /\ sinkCalls' = sinkCalls /\ ledger' = ledger

RetryPassesCheck == sw.pc = "check" /\ sw'.pc = "enrich"

\* ... and returns to the loop of the handler (as a duplicate, or after its
\* distributeEvent).
RetryReturns == (sw.pc = "check" /\ sw'.pc = "remove") \/ (sw.pc = "enrich" /\ sw' # sw)

RetriedId == Current.event_data.event_id

HasRecord(id) == \E i \in 1..Len(ledger) : ledger[i].event_id = id

FailedRetriesOf(m) == IF m \in DOMAIN failedRetries THEN failedRetries[m] ELSE 0

\* C3: within the retention window, a sweeper retry of identifier X and an
\* ingestion of a fresh delivery of X never both run enrichment and
\* distribution.
C3_NoDoubleProcessing ==
  expiries = 0 =>
    \A t \in Tasks :
      ~(/\ sw.pc = "enrich" /\ RetriedId = IdOf(t)
        /\ tasks[t].pc \in {"enrich", "dist", "store"})

\* C4: a Failure Record whose retry failed 5 times is out of the ledger (or
\* its removal is under way) and is not retried a 6th time.
C4_RemovedAfterFiveFailedRetries ==
  \A m \in DOMAIN failedRetries :
    /\ failedRetries[m] <= MaxRetries
    /\ failedRetries[m] >= MaxRetries =>
         (~InLedger(ledger, m) \/ (sw.pc = "remove" /\ Current = m))

\* C5: the retry count persisted with a Failure Record is the number of
\* failed retries the record has undergone.
C5_RetryCountPersisted ==
  \A i \in 1..Len(ledger) : ledger[i].retry_count = FailedRetriesOf(ledger[i])

\* C6: a retry that returns has called the Enrichment Gateway and every
\* enabled Distribution Target for the Envelope of its record.
C6_RetryFromScratch ==
  [][RetryReturns =>
       /\ sw.pc = "enrich"
       /\ \A g \in EnabledTargets(cfg, Current.event_data) :
            sinkCalls'[RetriedId][g] = sinkCalls[RetriedId][g] + 1]_vars

\* C7: with the stores available and within the retention window, an
\* Envelope whose pipeline ended in a Failure Ledger write does not end up
\* with no record left to retry and the sweeper at rest, unless a sweeper
\* run has invoked its distribution.
C7_FailedIsRedistributed ==
  \A t \in Tasks :
    (/\ tasks[t].pc = "done" /\ tasks[t].outcome = "failed"
     /\ faults = 0 /\ expiries = 0
     /\ sw.pc = "idle" /\ ~HasRecord(IdOf(t)))
      => IdOf(t) \in redistributed

\* C8: both pipelines pass the idempotency check by the atomic
\* create-if-absent: a check passed without a store error has written the
\* Processing Record in that very step.
C8_SamePipeline ==
  [][/\ \A t \in Tasks :
          (tasks[t].pc = "check" /\ tasks'[t].pc = "enrich" /\ faults' = faults)
            => IdOf(t) \in kv'
     /\ (RetryPassesCheck /\ faults' = faults) => RetriedId \in kv']_vars

\* The handler's removeFailedEvent settles in this step.
RemoveSettles == sw.pc = "remove" /\ sw' # sw

\* The ledger loses the record the sweeper is at, and nothing else.
RemovedExactlyCurrent == ledger' = SelectSeq(ledger, LAMBDA x : x # Current)

\* A retry returned false in this step, its record being below the ceiling.
FailsBelowCeiling ==
  sw.pc = "enrich" /\ failedRetries' # failedRetries /\ Current.retry_count < MaxRetries

C10_FanOutIsolation ==
  \A t \in Tasks :
    /\ tasks[t].pc # "store"
    /\ tasks[t].pc = "dist" =>
         /\ tasks[t].invoked = EnabledTargets(cfg, tasks[t].env)
         /\ \A g \in Targets : sinkCalls[IdOf(t)][g] >= (IF g \in tasks[t].invoked THEN 1 ELSE 0)

\* ----------------------------------------------------------------- fan-out

\* distributeEvent of task t has ended, by returning or by raising.
DistributionEnded(t) == tasks[t].pc \in {"store", "done"}

\* C11: once distributeEvent has ended, no target it invoked is still
\* unsettled with its timeout running: the join waits for all of them.
C11_WaitForAll ==
  \A t \in Tasks : DistributionEnded(t) => tasks[t].pend = {}

\* A Failure Record appears in the ledger in this step.
RecordAppended == \E i \in 1..Len(ledger') : ~InLedger(ledger, ledger'[i])

\* C12: a task in distribution, whatever its targets do, stays in
\* distribution or completes, and writes no Failure Record; a Failure Record
\* is appended only by a task whose exception reached the classifier.
C12_PartialFailureAbsorbed ==
  [][/\ \A t \in Tasks :
          (tasks[t].pc = "dist" /\ tasks'[t] # tasks[t])
            => /\ tasks'[t].pc \in {"dist", "done"}
               /\ tasks'[t].pc = "done" => tasks'[t].outcome \in Completed
               /\ ledger' = ledger
     /\ RecordAppended =>
          \E t \in Tasks : tasks[t].pc = "store" /\ tasks'[t].outcome = "failed"]_vars

\* A pipeline has completed with at least one target rejected and the
\* ledger holds no record of its Envelope.
C12_Witness ==
  \E t \in Tasks :
    /\ tasks[t].pc = "done" /\ tasks[t].outcome = "partial"
    /\ ~HasRecord(IdOf(t))

\* ------------------------------------------- one distributeEvent, with time
\* A second specification: one call of distributeEvent on a drawn Envelope
\* and configuration, with the time since the call in `clock` (seconds), the
\* deliveries of the sinks told apart from what their promises settle to, and
\* the summary that distributeEvent logs.

FanOutConfigs == SUBSET {"GTM", "CRM", "Notification"}
FanOutEnvelopes == {EvtOrder, EvtOdd}

\* The timer of withTimeout for each target, in seconds.
Timeout(g) ==
  CASE g = "GTM" -> 8
    [] g = "CRM" -> 5
    [] g = "Notification" -> 5
    [] g = "Dashboard" -> 3

\* The timeout option of the sink's own axios.post; the alert has none.
HasAxiosTimeout(g) == g \in {"GTM", "CRM"}
AxiosTimeout(g) == 5

\* Order in which distributeEvent creates the promises.
PushRank(g) ==
  CASE g = "GTM" -> 1 [] g = "CRM" -> 2 [] g = "Notification" -> 3 [] g = "Dashboard" -> 4

TimeoutIf(g, gs) == IF g \in gs THEN Timeout(g) ELSE 0

\* Timers that would start one after the other, each when the previous
\* target is done (targets awaited in turn).
Deadline_Sequential(task, g) ==
  LET upTo == {h \in task.invoked : PushRank(h) <= PushRank(g)}
  IN TimeoutIf("GTM", upTo) + TimeoutIf("CRM", upTo)
       + TimeoutIf("Notification", upTo) + TimeoutIf("Dashboard", upTo)

\* When the timer of withTimeout fires: all promises are created, with
\* their timers, in the synchronous part of distributeEvent.
Deadline(task, g) == Timeout(g)

\* Latest time at which the promise of g settles when the sink never answers.
SilentAt(task, g) ==
  IF HasAxiosTimeout(g) /\ AxiosTimeout(g) < Deadline(task, g)
  THEN AxiosTimeout(g) ELSE Deadline(task, g)

Horizon == Timeout("GTM") + Timeout("CRM") + Timeout("Notification") + Timeout("Dashboard")

\* What the promise of withTimeout settles to, by what the delivery did:
\* sendToServerGTM rethrows, sendToCRM and sendHighValueOrderAlert catch and
\* return null; without an answer the axios timeout is an error of the sink,
\* and the timer of withTimeout rejects.
Settlement(task, g, how) ==
  CASE how = "delivered" -> {"fulfilled"}
    [] how = "error" -> IF g = "GTM" THEN {"rejected"} ELSE {"fulfilled"}
    [] how = "silent" ->
         (IF HasAxiosTimeout(g) /\ AxiosTimeout(g) <= Deadline(task, g)
          THEN (IF g = "GTM" THEN {"rejected"} ELSE {"fulfilled"}) ELSE {})
           \cup (IF ~HasAxiosTimeout(g) \/ Deadline(task, g) <= AxiosTimeout(g)
                 THEN {"rejected"} ELSE {})

FanOutTask == [pc |-> "call", env |-> EvtOrder, invoked |-> {}, pend |-> {},
               rej |-> {}, bad |-> {}, total_count |-> 0, failed_count |-> 0]

FanOutInit ==
  /\ cfg \in FanOutConfigs
  /\ \E w \in FanOutEnvelopes : tasks = [t \in {1} |-> [FanOutTask EXCEPT !.env = w]]
  /\ clock = 0
  /\ kv = {} /\ ledger = <<>> /\ sw = IdleSweeper
  /\ sinkCalls = [i \in Ids |-> [g \in Targets |-> 0]]
  /\ enrichCalls = [i \in Ids |-> 0]
  /\ faults = 0 /\ expiries = 0 /\ sweeps = 0
  /\ failedRetries = [m \in {} |-> 0]
  /\ redistributed = {}
  /\ http = [t \in {1} |-> AcceptedRequest]

\* results.filter(r => r.status === 'rejected').length and the return.
Summary(task, rejected) ==
  [task EXCEPT !.pc = "done", !.pend = {}, !.rej = rejected,
               !.total_count = Cardinality(task.invoked),
               !.failed_count = Cardinality(rejected)]

\* The synchronous part of distributeEvent, as in EnrichSettle: the pushes,
\* with getOrderValue between CRM and Notification.
FanOutCall(t) ==
  /\ tasks[t].pc = "call"
  /\ LET w == tasks[t].env
         gs == IF TypeRaises(w) THEN TargetsBeforeValue(cfg) ELSE EnabledTargets(cfg, w)
         called == [tasks[t] EXCEPT !.invoked = gs, !.pend = gs \ {"Dashboard"}]
     IN /\ sinkCalls' = AddCalls(sinkCalls, w.event_id, gs)
        /\ tasks' = [tasks EXCEPT ![t] =
                       IF TypeRaises(w) THEN [called EXCEPT !.pc = "raised"]
                       ELSE IF called.pend = {} THEN Summary(called, {})
                       ELSE [called EXCEPT !.pc = "dist"]]
  /\ UNCHANGED <<cfg, kv, ledger, clock, sw, enrichCalls, faults, expiries,
                 sweeps, failedRetries, redistributed, http>>

\* A sink answers (delivered or error) before its timers, or a timer fires
\* for a sink that has not answered; the promise of withTimeout settles and,
\* with the last one, distributeEvent counts the rejected results.
FanOutSettle(t, g) ==
  /\ tasks[t].pc = "dist"
  /\ g \in tasks[t].pend
  /\ \E how \in {"delivered", "error", "silent"} :
       /\ how = "silent" => clock = SilentAt(tasks[t], g)
       /\ \E out \in Settlement(tasks[t], g, how) :
            LET rejected == IF out = "rejected" THEN tasks[t].rej \cup {g} ELSE tasks[t].rej
                failed == IF how = "delivered" THEN tasks[t].bad ELSE tasks[t].bad \cup {g}
                task == [tasks[t] EXCEPT !.bad = failed]
            IN tasks' = [tasks EXCEPT ![t] =
                           IF task.pend = {g} THEN Summary(task, rejected)
                           ELSE [task EXCEPT !.pend = @ \ {g}, !.rej = rejected]]
  /\ UNCHANGED <<cfg, kv, ledger, clock, sw, sinkCalls, enrichCalls, faults,
                 expiries, sweeps, failedRetries, redistributed, http>>

\* A second passes; it cannot pass the moment a timer of a pending promise
\* is due.
FanOutTick(t) ==
  /\ tasks[t].pc = "dist"
  /\ clock < Horizon
  /\ \A g \in tasks[t].pend : clock < SilentAt(tasks[t], g)
  /\ clock' = clock + 1
  /\ UNCHANGED <<cfg, kv, ledger, tasks, sw, sinkCalls, enrichCalls, faults,
                 expiries, sweeps, failedRetries, redistributed, http>>

FanOutNext ==
  \E t \in {1} :
    \/ FanOutCall(t)
    \/ \E g \in Targets : FanOutSettle(t, g)
    \/ FanOutTick(t)

FanOutSpec == FanOutInit /\ [][FanOutNext]_vars

\* C13: the failed count of the summary is the number of invoked targets
\* whose delivery errored or got no answer; the total is the number invoked.
C13_SummaryCountsFailedDeliveries ==
  \A t \in DOMAIN tasks :
    tasks[t].pc = "done" =>
      /\ tasks[t].total_count = Cardinality(tasks[t].invoked)
      /\ tasks[t].failed_count = Cardinality(tasks[t].bad)

MaxTimeout(gs) == CHOOSE x \in {Timeout(g) : g \in gs} : \A g \in gs : Timeout(g) <= x

\* C14: with two or more targets invoked, distributeEvent is never still
\* running, nor completes, later than the largest of their timeouts.
C14_BoundedByMaxTimeout ==
  \A t \in DOMAIN tasks :
    (tasks[t].pc \in {"dist", "done"} /\ Cardinality(tasks[t].invoked) >= 2)
      => clock <= MaxTimeout(tasks[t].invoked)

\* A distribution to two or more targets, one of which never answered, that
\* completed exactly when the largest timeout ran out.
C14_Witness ==
  \E t \in DOMAIN tasks :
    /\ tasks[t].pc = "done" /\ Cardinality(tasks[t].invoked) >= 2
    /\ tasks[t].rej # {}
    /\ clock = MaxTimeout(tasks[t].invoked)

\* --------------------------------------------------------------- enrichment

\* Contexts that carry no resolved object: null, or the Envelope as it came.
EmptyContexts == {"null", "unenriched"}

\* C15: whatever the Enrichment Gateway does, a task that waits for
\* enrichment can take the step that starts distribution (its race settles);
\* and a task that has started distribution after the Gateway failed or did
\* not answer holds an empty Enriched Context.
C15_EnrichmentNeverBlocks ==
  \A t \in Tasks :
    /\ tasks[t].pc = "enrich" => ENABLED EnrichSettle(t)
    /\ (tasks[t].pc \in {"dist", "store"} /\ tasks[t].gw \in {"error", "silent"})
         => tasks[t].ctx \in EmptyContexts

\* Distribution has started with a null context for an Envelope whose
\* enrichment never answered.
C15_Witness ==
  \E t \in Tasks :
    /\ tasks[t].pc = "dist" /\ tasks[t].gw = "silent" /\ tasks[t].ctx = "null"
    /\ tasks[t].invoked = EnabledTargets(cfg, tasks[t].env)

\* --------------------------------------------------------------- validation

\* An Envelope without an identifier or without a type.
MissingIdOrType(w) == w.event_id = "" \/ w.type = NoType

\* No Processing Record, enrichment call, sink call or Failure Record
\* exists for the identifier.
NoEffects(id) ==
  /\ id \notin kv
  /\ enrichCalls[id] = 0
  /\ \A g \in Targets : sinkCalls[id][g] = 0
  /\ ~HasRecord(id)

\* C16: a delivered Envelope without identifier or type is rejected at
\* validation (its task ends as invalid at once) and leaves no effect.
C16_InvalidRejected ==
  \A t \in Tasks :
    (tasks[t].pc # "idle" /\ MissingIdOrType(tasks[t].env))
      => /\ tasks[t].pc = "done" /\ tasks[t].outcome = "invalid"
         /\ IdOf(t) \in Ids => NoEffects(IdOf(t))

\* ------------------------------------------------------------- error handling

\* Ways in which the promise of processWebhookEvent resolves.
Resolutions == {"invalid", "duplicate", "failed"} \cup Completed

\* C17: every finished processWebhookEvent has resolved; none has rejected
\* towards the handler, whichever call failed on its way.
C17_NeverRejects ==
  \A t \in Tasks : tasks[t].pc = "done" => tasks[t].outcome \in Resolutions

\* A pipeline whose distributeEvent raised and whose Failure Ledger write
\* failed as well (no record exists and no sweeper run has drained one) has
\* resolved.
C17_Witness ==
  \E t \in Tasks :
    /\ tasks[t].pc = "done" /\ tasks[t].outcome = "failed"
    /\ ~HasRecord(IdOf(t)) /\ sweeps = 0

\* The classifier of task t settles its storeFailedEvent in this step.
StoreSettles(t) == tasks[t].pc = "store" /\ tasks'[t] # tasks[t]

\* The ledger holds, after the step, a record of the Envelope of task t
\* written at the time of the step.
RecordStored(t) ==
  \E i \in 1..Len(ledger') :
    /\ ledger'[i].event_data = tasks[t].env
    /\ ledger'[i].failed_at = clock'

\* Permanent errors are dropped without a record: an Envelope without
\* identifier ends as invalid in the step that delivers it.  Unknown errors
\* (the TypeError of distributeEvent) go to the Failure Ledger write.
ClassifiedAt(t) ==
  /\ (tasks[t].pc = "idle" /\ tasks'[t].pc # "idle" /\ tasks'[t].env.event_id = "")
       => (tasks'[t].pc = "done" /\ tasks'[t].outcome = "invalid" /\ ledger' = ledger)
  /\ (tasks[t].pc = "enrich" /\ tasks'[t] # tasks[t] /\ TypeRaises(tasks[t].env))
       => tasks'[t].pc = "store"

\* C18 as stated: permanent errors are dropped, unknown ones append a
\* Failure Record for the Envelope.
C18_DropOrAppend ==
  [][\A t \in Tasks : ClassifiedAt(t) /\ (StoreSettles(t) => RecordStored(t))]_vars

\* C18 amended: the record is appended unless the ledger write throws,
\* which leaves the ledger as it is.
C18_DropOrAppendUnlessStoreThrows ==
  [][\A t \in Tasks :
       /\ ClassifiedAt(t)
       /\ (StoreSettles(t) /\ faults' = faults) => RecordStored(t)
       /\ (StoreSettles(t) /\ faults' # faults) => ledger' = ledger]_vars

\* Both outcomes have happened: an Envelope without identifier was dropped
\* and an Envelope whose distribution raised has its Failure Record.
C18_Witness ==
  /\ \E t \in Tasks : tasks[t].pc = "done" /\ tasks[t].outcome = "invalid"
                      /\ tasks[t].env.event_id = ""
  /\ \E t \in Tasks : /\ tasks[t].pc = "done" /\ tasks[t].outcome = "failed"
                      /\ \E i \in 1..Len(ledger) : ledger[i].event_data = tasks[t].env

\* Failure Records of an identifier, and the tasks that wrote one for it.
RecordsOf(id) == {i \in 1..Len(ledger) : ledger[i].event_id = id}
WritersOf(id) == {t \in Tasks : IdOf(t) = id /\ tasks[t].stores = 1}

\* C19: a task calls the Processing Record write at most once, and exactly
\* once when it has finished with a valid Envelope; it calls the Failure
\* Ledger write at most once; and the ledger never holds more records of an
\* identifier than tasks that wrote one for it.
C19_SideEffectCardinality ==
  /\ \A t \in Tasks :
       /\ tasks[t].marks <= 1 /\ tasks[t].stores <= 1
       /\ (tasks[t].pc = "done" /\ tasks[t].env.event_id # "") => tasks[t].marks = 1
       /\ (tasks[t].pc = "done" /\ tasks[t].env.event_id = "") => tasks[t].marks = 0
       /\ tasks[t].stores = 1 => (tasks[t].pc = "done" /\ tasks[t].outcome = "failed")
  /\ \A id \in Ids : Cardinality(RecordsOf(id)) <= Cardinality(WritersOf(id))

\* A task has made its one Processing Record write and its one Failure
\* Ledger write, and the ledger holds one record of its identifier.
C19_Witness ==
  \E t \in Tasks :
    /\ tasks[t].pc = "done" /\ tasks[t].marks = 1 /\ tasks[t].stores = 1
    /\ Cardinality(RecordsOf(IdOf(t))) = 1

\* ------------------------------------------------- the webhook handler
\* A third specification: one request through the handler of the webhook
\* endpoint and, when it is accepted, through the pipeline.

\* The requests the handler can get: the method, whether getRawBody will
\* deliver the body (read), whether the body is JSON, whether
\* SQUARE_SIGNATURE_KEY is configured, and the signature header.
Requests ==
  [method : {"POST", "GET", "OPTIONS"}, read : BOOLEAN, json : BOOLEAN, key : BOOLEAN,
   sig : {"valid", "invalid", "absent"}, at : {"start"}, status : {0}]

\* A validation that only rejects a signature that is present and wrong.
validateSignature_AcceptsAbsent(sig, key) == key /\ sig # "invalid"

\* validateSignature: false without a signature or a key, and when the HMAC
\* of the body differs from the signature.
validateSignature(sig, key) == key /\ sig = "valid"

\* A handler that answers 200 as soon as the body has parsed.
handlerResponse_BeforeValidation(req, bodyOk) ==
  CASE ~bodyOk -> 500
    [] ~req.json -> 400
    [] OTHER -> 200

\* The status the handler answers once getRawBody has settled.
handlerResponse(req, bodyOk) ==
  CASE ~bodyOk -> 500
    [] ~req.json -> 400
    [] ~req.key -> 500
    [] ~validateSignature(req.sig, req.key) -> 401
    [] OTHER -> 200

HandlerInit ==
  /\ cfg \in Configs
  /\ http \in [{1} -> Requests]
  /\ tasks = [t \in {1} |-> IdleTask]
  /\ kv = {} /\ ledger = <<>> /\ clock = 0 /\ sw = IdleSweeper
  /\ sinkCalls = [i \in Ids |-> [g \in Targets |-> 0]]
  /\ enrichCalls = [i \in Ids |-> 0]
  /\ faults = 0 /\ expiries = 0 /\ sweeps = 0
  /\ failedRetries = [m \in {} |-> 0]
  /\ redistributed = {}

\* The handler starts: OPTIONS and methods other than POST are answered at
\* once, a POST awaits getRawBody.
Receive(t) ==
  /\ http[t].at = "start"
  /\ http' = [http EXCEPT ![t] =
                CASE @.method = "OPTIONS" -> [@ EXCEPT !.at = "end", !.status = 204]
                  [] @.method # "POST" -> [@ EXCEPT !.at = "end", !.status = 405]
                  [] OTHER -> [@ EXCEPT !.at = "body"]]
  /\ UNCHANGED <<cfg, kv, ledger, clock, tasks, sw, sinkCalls, enrichCalls, faults,
                 expiries, sweeps, failedRetries, redistributed>>

\* getRawBody settles: the body is parsed, the signature validated, the
\* answer sent and, after a 200, processWebhookEvent called without await;
\* the handler returns.
BodyRead(t) ==
  /\ http[t].at = "body"
  /\ \E w \in Envelopes :
       LET status == handlerResponse(http[t], http[t].read)
       IN /\ http' = [http EXCEPT ![t] = [@ EXCEPT !.at = "end", !.status = status]]
          /\ tasks' = [tasks EXCEPT ![t] = IF status = 200 THEN Invoked(@, w) ELSE @]
  /\ UNCHANGED <<cfg, kv, ledger, clock, sw, sinkCalls, enrichCalls, faults,
                 expiries, sweeps, failedRetries, redistributed>>

HandlerNext ==
  \E t \in {1} :
    \/ Receive(t)
    \/ BodyRead(t)
    \/ CheckAndMark(t)
    \/ EnrichSettle(t)
    \/ \E g \in Targets : SinkSettle(t, g)
    \/ StoreFailed(t)

HandlerSpec == HandlerInit /\ [][HandlerNext]_vars

Running == {"check", "enrich", "dist", "store"}

\* C20: a 200 has been sent only for a POST whose signature was validated;
\* the pipeline of a request has begun only after its 200 was sent, and
\* until then nothing was stored or called; while the pipeline runs the
\* handler has already returned.
C20_ResponseOrdering ==
  \A t \in DOMAIN http :
    /\ http[t].status = 200 =>
         (http[t].method = "POST" /\ http[t].json /\ validateSignature(http[t].sig, http[t].key))
    /\ tasks[t].pc # "idle" => http[t].status = 200
    /\ http[t].status # 200 => \A id \in Ids : NoEffects(id)
    /\ tasks[t].pc \in Running => http[t].at = "end"

\* The 200 is out, the handler has returned, and the pipeline is still
\* waiting for its enrichment.
C20_Witness ==
  \E t \in DOMAIN http :
    /\ http[t].status = 200 /\ http[t].at = "end" /\ http[t].sig = "valid"
    /\ tasks[t].pc = "enrich"

\* A POST whose body the handler has read and which it has answered.
AnsweredPost(t) == http[t].at = "end" /\ http[t].method = "POST" /\ http[t].read

\* The pipeline of the request was not invoked and nothing was touched.
Untouched(t) == tasks[t].pc = "idle" /\ \A id \in Ids : NoEffects(id)

SenderStatus(req) ==
  CASE req.method = "OPTIONS" -> 204
    [] req.method # "POST" -> 405
    [] ~req.read -> 500
    [] ~req.json -> 400
    [] ~req.key -> 500
    [] req.sig # "valid" -> 401
    [] OTHER -> 200

\* C22: the status of an answered request is a function of its method,
\* body, secret configuration and signature header, in every state, that
\* is, whatever the store, the Gateway, the sinks and the ledger write have
\* done since; an unanswered request has no status.
C22_SenderNonInterference ==
  \A t \in DOMAIN http :
    http[t].status = (IF http[t].at = "end" THEN SenderStatus(http[t]) ELSE 0)

\* The sender got 200 although distribution raised and the Failure Ledger
\* write threw as well.
C22_Witness ==
  \E t \in DOMAIN http :
    /\ http[t].status = 200
    /\ tasks[t].pc = "done" /\ tasks[t].outcome = "failed"
    /\ faults = 1 /\ ~tasks[t].threw /\ ledger = <<>>

\* ------------------------------------------------------ The retry endpoint
\* One request to the retry endpoint, from its arrival to its response, over
\* a ledger and an idempotency store as earlier deliveries leave them: the
\* records are those of the envelope whose type makes getOrderValue throw,
\* and its Processing Record is either still there or has expired.

\* process.env.RETRY_SECRET_KEY unset, or the header not sent.
NoSecret == "undefined"

RetryRequests ==
  [method : {"GET", "POST", "PUT"},
   secret : {NoSecret, "", "k1", "k2"},
   configured : {NoSecret, "", "k1"},
   at : {"start"}, status : {0}, body : {[pending |-> TRUE]}]

RetryLedgers ==
  {<<>>, <<FailedEvent(EvtOdd, 0)>>, <<FailedEvent(EvtOdd, 0), FailedEvent(EvtOdd, 1)>>}

\* A trigger the handler lets through whenever the header equals the
\* configured value, an unset one included.
Authorised_AnyEqual(req) == req.method = "GET" \/ req.secret = req.configured

\* GET needs nothing; POST needs a configured key (truthy) and a header
\* strictly equal to it.
Authorised(req) ==
  \/ req.method = "GET"
  \/ /\ req.configured \notin {NoSecret, ""}
     /\ req.secret = req.configured

RetryInit ==
  /\ cfg \in Configs
  /\ kv \in {{}, {"evt-2"}}
  /\ ledger \in RetryLedgers
  /\ clock = 2
  /\ tasks = [t \in Tasks |-> IdleTask]
  /\ sw = IdleSweeper
  /\ sinkCalls = [i \in Ids |-> [g \in Targets |-> 0]]
  /\ enrichCalls = [i \in Ids |-> 0]
  /\ faults = 0
  /\ expiries = 0
  /\ sweeps = 0
  /\ failedRetries = [m \in {} |-> 0]
  /\ redistributed = {}
  /\ http \in [{RetryReq} -> RetryRequests]

\* The handler up to its first await: 405 for another method, 401 for a POST
\* without the configured secret, otherwise getFailedEvents is called.
RetryReceive ==
  /\ RetryReq \in DOMAIN http
  /\ http[RetryReq].at = "start"
  /\ LET req == http[RetryReq]
     IN http' = IF req.method \notin {"GET", "POST"}
                THEN Respond(http, 405, [error |-> "Method not allowed"])
                ELSE IF ~Authorised(req)
                THEN Respond(http, 401, [error |-> "Unauthorized"])
                ELSE [http EXCEPT ![RetryReq].at = "drain"]
  /\ UNCHANGED <<cfg, kv, ledger, clock, tasks, sw, sinkCalls, enrichCalls, faults,
                 expiries, sweeps, failedRetries, redistributed>>

RetryNext ==
  \/ RetryReceive
  \/ SweepStart
  \/ RetryCheck
  \/ RetryEnrich
  \/ RetryRemove

RetrySpec == RetryInit /\ [][RetryNext]_vars

\* ---------------------------------------------------------------- Claim C23
\* C23: a POST to the retry endpoint whose secret header differs from the
\* configured secret, or that arrives while no secret is configured, is
\* answered 401 and leaves the Failure Ledger, the Idempotency Store and the
\* sweeper as they were; a POST starts a drain only with a header equal to
\* the configured secret; a GET goes on to the drain whatever its header.
C23_TriggerAuthorisation ==
  [][LET req == http[RetryReq]
     IN /\ (req.method = "POST"
            /\ (req.secret # req.configured \/ req.configured = NoSecret))
           => /\ http'[RetryReq].status = 401
              /\ ledger' = ledger
              /\ kv' = kv
              /\ sw' = IdleSweeper
        /\ (req.method = "POST" /\ sw'.pc # "idle") => req.secret = req.configured
        /\ (req.method = "GET" /\ req.at = "start") => http'[RetryReq].at = "drain"]_vars

\* A POST without header, with no secret configured and a record waiting in
\* the ledger, was answered 401.
C23_Witness ==
  LET req == http[RetryReq]
  IN /\ req.method = "POST"
     /\ req.configured = NoSecret
     /\ req.secret = NoSecret
     /\ req.status = 401
     /\ ledger # <<>>

\* ---------------------------------------------------------------- Claim C24
\* The request is answered 200 in this step: the run is complete.
RunCompletes == http[RetryReq].status = 0 /\ http'[RetryReq].status = 200

\* The records getFailedEvents handed to this run.
Drained == sw.snapshot

\* C24: every completed sweeper run answers with a summary whose total is
\* the number of drained records and whose succeeded and failed counts add
\* up to the total.
C24_SweeperSummary ==
  [][RunCompletes =>
       LET body == http'[RetryReq].body
       IN /\ "results" \in DOMAIN body
          /\ body.results.total = Len(Drained)
          /\ body.results.success + body.results.failed = body.results.total]_vars

\* ------------------------------------------------------ The alert threshold
\* One distributeEvent call per configured threshold, sink configuration,
\* event type and amount.
ThresholdSettings ==
  {{}, {"HIGH_VALUE_THRESHOLD=0"}, {"HIGH_VALUE_THRESHOLD=50"},
   {"HIGH_VALUE_THRESHOLD=200"}, {"HIGH_VALUE_THRESHOLD=abc"}}

AlertConfigs ==
  {urls \cup setting : urls \in SUBSET {"CRM", "Notification"}, setting \in ThresholdSettings}

AlertEnvelopes ==
  [event_id : {"evt-4"},
   type : {"order.created", "payment.created", "customer.created"},
   amount : {0, 2650, 10000, 10001, 15000, 20001}]

AlertInit ==
  /\ cfg \in AlertConfigs
  /\ \E w \in AlertEnvelopes : tasks = [t \in {1} |-> [FanOutTask EXCEPT !.env = w]]
  /\ clock = 0
  /\ kv = {} /\ ledger = <<>> /\ sw = IdleSweeper
  /\ sinkCalls = [i \in {"evt-4"} |-> [g \in Targets |-> 0]]
  /\ enrichCalls = [i \in {"evt-4"} |-> 0]
  /\ faults = 0 /\ expiries = 0 /\ sweeps = 0
  /\ failedRetries = [m \in {} |-> 0]
  /\ redistributed = {}
  /\ http = [t \in {1} |-> AcceptedRequest]

AlertSpec == AlertInit /\ [][FanOutNext]_vars

\* ---------------------------------------------------------------- Claim C25
\* The threshold the deployment configured, in dollars; the reference value
\* 100 when the setting is absent or is not a number.
ConfiguredThreshold ==
  IF "HIGH_VALUE_THRESHOLD=0" \in cfg THEN 0
  ELSE IF "HIGH_VALUE_THRESHOLD=50" \in cfg THEN 50
  ELSE IF "HIGH_VALUE_THRESHOLD=200" \in cfg THEN 200
  ELSE 100

\* The order or payment amount of the Envelope, in cents.
AmountInCents(w) == IF w.type \in {"order.created", "payment.created"} THEN w.amount ELSE 0

AlertCalls(t) == sinkCalls[tasks[t].env.event_id]["Notification"]

\* C25: once distributeEvent has made its calls, the alert sink was invoked
\* at most once, and only for an Envelope whose value (amount in cents / 100)
\* exceeds the configured threshold; with the threshold at 100 an amount of
\* 2650 does not invoke it, and an order of 15000 invokes it exactly once
\* where the alert URL is configured.
C25_AlertThreshold ==
  \A t \in DOMAIN tasks :
    LET w == tasks[t].env
    IN /\ AlertCalls(t) \in {0, 1}
       /\ AlertCalls(t) = 1 => AmountInCents(w) > ConfiguredThreshold * 100
       /\ (tasks[t].pc # "call" /\ ConfiguredThreshold = 100) =>
            /\ w.amount = 2650 => AlertCalls(t) = 0
            /\ (w.amount = 15000 /\ w.type = "order.created" /\ "Notification" \in cfg)
                 => AlertCalls(t) = 1

\* An order of 150.00 was distributed and alerted once against the
\* threshold 100.
C25_Witness ==
  \E t \in DOMAIN tasks :
    /\ tasks[t].pc = "done"
    /\ tasks[t].env.amount = 15000
    /\ tasks[t].env.type = "order.created"
    /\ ConfiguredThreshold = 100
    /\ AlertCalls(t) = 1

\* ---------------------------------------------------------------- Claim C26
\* In this step the Ingestion Controller's check-and-mark stores the
\* Processing Record of id (the set returned OK) ...
ControllerWrites(id) ==
  \E t \in Tasks :
    /\ tasks[t].pc = "check" /\ IdOf(t) = id
    /\ tasks'[t].pc = "enrich" /\ ~tasks'[t].threw

\* ... or the sweeper's logProcessedEvent stores it.
SweeperWrites(id) ==
  /\ sw.pc = "enrich" /\ Current.event_id = id
  /\ sw'.pc = "remove" /\ sw'.success
  /\ faults' = faults

Redelivered(t) ==
  \E u \in Tasks : /\ u # t /\ IdOf(u) = IdOf(t) /\ tasks[u].pc = "done"
                   /\ tasks[u].outcome \in Completed /\ ~tasks[u].threw

\* ... and the record is no longer there.
RecordExpired(t) == Redelivered(t) /\ IdOf(t) \notin kv

\* C27: the end of a retention window removes the Processing Record; a
\* redelivery that arrives after the record of its identifier has expired
\* passes the idempotency check as a new event (enrichment is called once
\* more), and when its enrichment settles every enabled target is invoked
\* once more.
C27_RetentionExpiry ==
  [][/\ expiries' = expiries + 1 => \E id \in kv : kv' = kv \ {id}
     /\ \A t \in Tasks :
          /\ (ChecksNow(t) /\ RecordExpired(t)) =>
               /\ tasks'[t].pc = "enrich"
               /\ enrichCalls'[IdOf(t)] = enrichCalls[IdOf(t)] + 1
          /\ (tasks[t].pc = "enrich" /\ tasks'[t].pc # "enrich" /\ Redelivered(t)
              /\ expiries > 0) =>
               \A g \in EnabledTargets(cfg, tasks[t].env) :
                 sinkCalls'[IdOf(t)][g] = sinkCalls[IdOf(t)][g] + 1]_vars

\* The Envelope was processed, its record expired, and the redelivery was
\* processed again: enrichment was called twice and the log sink twice.
C27_Witness ==
  /\ expiries = 1 /\ faults = 0
  /\ IdOf(1) = IdOf(2)
  /\ \A t \in Tasks : tasks[t].pc = "done" /\ tasks[t].outcome \in Completed
                      /\ tasks[t].marks = 1
  /\ enrichCalls[IdOf(1)] = 2
  /\ sinkCalls[IdOf(1)]["Dashboard"] = 2

\* ---------------------------------------------------------------- Claim C28
\* C28: when the store throws on the append of a Failure Record,
\* storeFailedEvent returns normally: processWebhookEvent resolves as for a
\* stored failure, the response the sender got is not touched, and the
\* ledger is left without the record.
C28_AppendFireAndForget ==
  [][\A t \in Tasks :
       (StoreSettles(t) /\ faults' # faults) =>
         /\ tasks'[t].pc = "done" /\ tasks'[t].outcome = "failed"
         /\ http'[t] = http[t]
         /\ ledger' = ledger]_vars

\* The only store call that threw was the append of a task whose
\* distribution raised: the task has resolved, the sender keeps its 200 and
\* the ledger is empty though no sweeper has run.
C28_Witness ==
  \E t \in Tasks :
    /\ tasks[t].pc = "done" /\ tasks[t].outcome = "failed"
    /\ tasks[t].stores = 1 /\ IdOf(t) # ""
    /\ \A u \in Tasks : ~tasks[u].threw
    /\ faults = 1 /\ ledger = <<>> /\ sweeps = 0 /\ sw = IdleSweeper
    /\ http[t].status = 200

\* ---------------------------------------------------------------- Claim C29
\* getFailedEvents settles in this step, and what it returns.
DrainSettles ==
  /\ sw.pc = "idle" /\ tasks' = tasks
  /\ (sw'.pc = "check" \/ faults' # faults)

Returned == IF sw'.pc = "check" THEN sw'.snapshot ELSE <<>>

OldestFirst(l) == \A i, j \in 1..Len(l) : i < j => l[i].failed_at <= l[j].failed_at

\* The loop of the sweeper takes the returned records one by one from the
\* first to the last, and ends after the last.
RetriedInOrder ==
  /\ (sw.pc = "idle" /\ sw'.pc # "idle") => sw'.idx = 1
  /\ (sw.pc # "idle" /\ sw'.pc # "idle") =>
       /\ sw'.snapshot = sw.snapshot
       /\ sw'.idx \in {sw.idx, sw.idx + 1}
       /\ sw'.idx <= Len(sw.snapshot)
  /\ (sw.pc # "idle" /\ sw'.pc = "idle") => sw.idx = Len(sw.snapshot)

InvalidUtf8 == {"xFF", "xFE"}
RawBodies == {<<>>, <<"a">>, <<"b">>, <<"xFF">>, <<"xFE">>}

\* rawBody.toString('utf8'): each invalid byte becomes U+FFFD.
toStringUtf8(raw) ==
  [i \in 1..Len(raw) |-> IF raw[i] \in InvalidUtf8 THEN "uFFFD" ELSE raw[i]]

\* HMAC-SHA256 as an injective function of the key and the message.
Hmac(key, msg) == [key |-> key, msg |-> msg]

\* SQUARE_SIGNATURE_KEY: unset ("") or one of two keys.
SignatureKeys == {"", "k1", "k2"}

Digests ==
  {Hmac(k, m) : k \in {"k1", "k2"}, m \in {<<"a">>, <<"b">>, <<"xFF">>, <<"uFFFD">>}}

\* The signature header: no header, or the text sent for a digest: its 64
\* hex digits in lower or upper case, the digits followed by "zz", the digits
\* followed by one more digit, or the first 62 digits only.
SignatureForms == {"absent", "lower", "upper", "junk", "odd", "cut"}
SignatureHeaders == [digest : Digests, form : SignatureForms]

\* Buffer.from(text, 'hex'): the case of the digits does not matter, the
\* decoding stops at the first character that is not a hex digit and drops
\* a last single digit.
hexDecode(sig) ==
  IF sig.form = "cut" THEN [bytes |-> sig.digest, len |-> 31]
  ELSE [bytes |-> sig.digest, len |-> 32]

\* validateSignature of signature.js: false when an argument is missing;
\* the digest of the payload is compared with the decoded header by
\* crypto.timingSafeEqual, which throws (caught: false) on other lengths.
validateSignatureHmac(payload, sig, key) ==
  IF payload = <<>> \/ sig.form = "absent" \/ key = "" THEN FALSE
  ELSE LET calculated == [bytes |-> Hmac(key, payload), len |-> 32]
           given == hexDecode(sig)
       IN IF given.len # calculated.len THEN FALSE
          ELSE given.bytes = calculated.bytes

SignedRequests ==
  [method : {"POST"}, raw : RawBodies, key : SignatureKeys, sig : SignatureHeaders,
   at : {"body"}, status : {0}, endpoint : {[status |-> 0, valid |-> FALSE]}]

SignatureInit ==
  /\ cfg \in Configs
  /\ http \in [{1} -> SignedRequests]
  /\ tasks = [t \in {1} |-> IdleTask]
  /\ kv = {} /\ ledger = <<>> /\ clock = 0 /\ sw = IdleSweeper
  /\ sinkCalls = [i \in Ids |-> [g \in Targets |-> 0]]
  /\ enrichCalls = [i \in Ids |-> 0]
  /\ faults = 0 /\ expiries = 0 /\ sweeps = 0
  /\ failedRetries = [m \in {} |-> 0]
  /\ redistributed = {}

\* The webhook handler after getRawBody: the body is decoded and parsed, the
\* key looked up, the signature validated over the decoded text, the answer
\* sent and, after a 200, processWebhookEvent called.
SignedBodyRead(t) ==
  /\ http[t].at = "body"
  /\ \E w \in Envelopes :
       LET req == http[t]
           bodyString == toStringUtf8(req.raw)
           status == CASE bodyString = <<>> -> 400
                       [] req.key = "" -> 500
                       [] ~validateSignatureHmac(bodyString, req.sig, req.key) -> 401
                       [] OTHER -> 200
       IN /\ http' = [http EXCEPT ![t] = [@ EXCEPT !.at = "end", !.status = status]]
          /\ tasks' = [tasks EXCEPT ![t] = IF status = 200 THEN Invoked(@, w) ELSE @]
  /\ UNCHANGED <<cfg, kv, ledger, clock, sw, sinkCalls, enrichCalls, faults,
                 expiries, sweeps, failedRetries, redistributed>>

\* The validation endpoint for the same payload text, signature and key:
\* 400 when one is missing, else 200 with the verdict.
ValidateEndpoint(t) ==
  /\ http[t].endpoint.status = 0
  /\ LET req == http[t]
         payload == toStringUtf8(req.raw)
     IN http' = [http EXCEPT ![t].endpoint =
                   IF payload = <<>> \/ req.sig.form = "absent" \/ req.key = ""
                   THEN [status |-> 400, valid |-> FALSE]
                   ELSE [status |-> 200,
                         valid |-> validateSignatureHmac(payload, req.sig, req.key)]]
  /\ UNCHANGED <<cfg, kv, ledger, clock, tasks, sw, sinkCalls, enrichCalls, faults,
                 expiries, sweeps, failedRetries, redistributed>>

SignatureNext ==
  \E t \in {1} :
    \/ SignedBodyRead(t)
    \/ ValidateEndpoint(t)
    \/ CheckAndMark(t)
    \/ EnrichSettle(t)
    \/ \E g \in Targets : SinkSettle(t, g)
    \/ StoreFailed(t)

SignatureSpec == SignatureInit /\ [][SignatureNext]_vars

\* ---------------------------------------------------------------- Claim C30
\* The header is the hex text of HMAC-SHA256(key, msg), in either case.
SignatureIsHmac(req, msg) ==
  /\ req.sig.form \in {"lower", "upper"}
  /\ req.sig.digest = Hmac(req.key, msg)

\* C30: a request with a JSON body and a configured key is accepted (200)
\* if and only if its signature header is the HMAC-SHA256 of the exact raw
\* body under the key, and is answered 401 otherwise; the validation
\* endpoint says valid if and only if the signature it is given is the
\* HMAC-SHA256 of the payload text it is given.
C30_SignatureIff ==
  \A t \in DOMAIN http :
    LET req == http[t]
    IN /\ (req.at = "end" /\ req.status \in {200, 401}) =>
            (req.status = 200 <=> SignatureIsHmac(req, req.raw))
       /\ req.endpoint.status = 200 =>
            (req.endpoint.valid <=> SignatureIsHmac(req, toStringUtf8(req.raw)))

\* ------------------------------------------------- the Enrichment Gateway
\* One call of enrichWebhookData, by what each lookup of the Square API
\* does: it answers in time ("ok"), it answers with an error ("error"), or
\* it has not answered when the 7s timer of the race fires ("late"); "none"
\* is a lookup that is not made (the object names no related object).
Lookups == {"ok", "error", "late"}
Related == {"none", "ok", "error", "late"}

NoOrder == [order |-> "none", customer |-> "none"]

\* enrichOrderData: null when retrieveOrder fails; the order with the
\* customer, or with a null customer when retrieveCustomer fails; the
\* promise is still pending at 7s when either lookup is late.
enrichOrderData(order, customer) ==
  CASE order = "error" -> [at |-> "intime", value |-> NoOrder]
    [] order = "late" -> [at |-> "late", value |-> NoOrder]
    [] customer = "late" -> [at |-> "late", value |-> NoOrder]
    [] OTHER -> [at |-> "intime",
                 value |-> [order |-> "fetched",
                            customer |-> IF customer = "ok" THEN "fetched" ELSE "none"]]

\* The enriched field enrichWebhookData returns for an order event: the
\* result of the race, or nothing when the timer won.
enrichedOrder(order, customer) ==
  LET r == enrichOrderData(order, customer)
  IN IF r.at = "late" THEN [payment |-> "none", order |-> "none", customer |-> "none"]
     ELSE [payment |-> "none", order |-> r.value.order, customer |-> r.value.customer]

\* ... and for a payment event: getPaymentDetails raced with a timer, then,
\* for a payment that names an order, enrichOrderData raced with another.
enrichedPayment(payment, order, customer) ==
  IF payment # "ok" THEN [payment |-> "none", order |-> "none", customer |-> "none"]
  ELSE IF order = "none" THEN [payment |-> "fetched", order |-> "none", customer |-> "none"]
  ELSE LET r == enrichOrderData(order, customer)
       IN IF r.at = "late"
          THEN [payment |-> "fetched", order |-> "none", customer |-> "none"]
          ELSE [payment |-> "fetched", order |-> r.value.order,
                customer |-> r.value.customer]

LookupTypes == {"order.created", "order.updated", "payment.created", "payment.updated",
                "customer.created"}

LookupCalls ==
  [pc : {"call"}, type : LookupTypes, payment : Lookups, order : Related,
   customer : Related, enriched : {[payment |-> "none", order |-> "none",
                                    customer |-> "none"]}]

LookupInit ==
  /\ cfg \in Configs
  /\ tasks \in [{1} -> LookupCalls]
  /\ kv = {} /\ ledger = <<>> /\ clock = 0 /\ sw = IdleSweeper
  /\ sinkCalls = [i \in Ids |-> [g \in Targets |-> 0]]
  /\ enrichCalls = [i \in Ids |-> 0]
  /\ faults = 0 /\ expiries = 0 /\ sweeps = 0
  /\ failedRetries = [m \in {} |-> 0]
  /\ redistributed = {}
  /\ http = [t \in {1} |-> AcceptedRequest]

\* enrichWebhookData returns.
EnrichReturn(t) ==
  /\ tasks[t].pc = "call"
  /\ LET c == tasks[t]
         e == CASE StartsWith(c.type, "order.") ->
                     IF c.order = "none" THEN c.enriched
                     ELSE enrichedOrder(c.order, c.customer)
                [] StartsWith(c.type, "payment.") ->
                     enrichedPayment(c.payment, c.order, c.customer)
                [] OTHER -> c.enriched
     IN tasks' = [tasks EXCEPT ![t] = [c EXCEPT !.pc = "returned", !.enriched = e]]
  /\ UNCHANGED <<cfg, kv, ledger, clock, sw, sinkCalls, enrichCalls, faults,
                 expiries, sweeps, failedRetries, redistributed, http>>

LookupNext == \E t \in {1} : EnrichReturn(t)

LookupSpec == LookupInit /\ [][LookupNext]_vars

\* ---------------------------------------------------------------- Claim C31
\* C31: when enrichWebhookData has returned, an order event whose order was
\* fetched while the lookup of its customer failed or was late carries the
\* order, and a payment event whose payment was fetched while the lookup of
\* its order failed or was late carries the payment.
C31_PartialResults ==
  \A t \in DOMAIN tasks :
    LET c == tasks[t]
    IN c.pc = "returned" =>
         /\ (StartsWith(c.type, "order.") /\ c.order = "ok"
             /\ c.customer \in {"error", "late"}) => c.enriched.order = "fetched"
         /\ (StartsWith(c.type, "payment.") /\ c.payment = "ok"
             /\ c.order \in {"error", "late"}) => c.enriched.payment = "fetched"

\* ---------------------------------------------------------------- Claim C32
\* The task takes a context in this step.
TakesContext(t) == tasks'[t].ctx # tasks[t].ctx /\ tasks'[t].ctx # "none"

\* C32: a processing attempt takes an Enriched Context only when its own
\* enrichment race settles; the context is the result of its own Gateway
\* call when that call answered and is empty otherwise (a result that comes
\* after the race was lost is discarded); the step gives no context to any
\* other attempt, and the targets are invoked in that very step, with that
\* context.
C32_ContextOwnership ==
  [][\A t \in Tasks :
       TakesContext(t) =>
         /\ tasks[t].pc = "enrich"
         /\ tasks'[t].ctx = (CASE tasks[t].gw = "ok" -> "enriched"
                               [] tasks[t].gw = "silent" -> "null"
                               [] OTHER -> "unenriched")
         /\ tasks'[t].invoked # {}
         /\ \A u \in Tasks \ {t} : tasks'[u].ctx = tasks[u].ctx]_vars

\* Two attempts distribute at the same time, one with the result of its own
\* Gateway call, the other, whose Gateway call has not answered, with none.
C32_Witness ==
  \E a, b \in Tasks :
    /\ a # b
    /\ tasks[a].pc = "dist" /\ tasks[a].gw = "ok" /\ tasks[a].ctx = "enriched"
    /\ tasks[b].pc = "dist" /\ tasks[b].gw = "silent" /\ tasks[b].ctx = "null"

\* ---------------------------------------------------------------- Claim C33
\* The kv.set of the check-and-mark of task t throws in this step.
SetThrows(t) == tasks[t].pc = "check" /\ tasks'[t].threw

\* C33: when the kv.set of checkAndMarkEventProcessed throws, the store is
\* left as it was (no Processing Record is written), the Envelope is taken
\* for new and enrichWebhookData is called for it; the attempt then goes on
\* to distribution and never returns as a duplicate.
C33_FailOpen ==
  [][\A t \in Tasks :
       /\ SetThrows(t) =>
            /\ kv' = kv
            /\ tasks'[t].pc = "enrich"
            /\ enrichCalls'[IdOf(t)] = enrichCalls[IdOf(t)] + 1
       /\ (tasks[t].threw /\ tasks[t].pc = "enrich") =>
            tasks'[t].pc \in {"enrich", "dist", "store", "done"}
       /\ (tasks'[t].threw /\ tasks'[t].pc = "done") =>
            tasks'[t].outcome # "duplicate"]_vars

\* The kv.set threw, no Processing Record exists for the identifier, and the
\* Envelope was distributed all the same.
C33_Witness ==
  \E t \in Tasks :
    /\ tasks[t].threw /\ tasks[t].pc = "done"
    /\ tasks[t].outcome \in Completed
    /\ IdOf(t) \notin kv /\ expiries = 0
    /\ \E g \in Targets : sinkCalls[IdOf(t)][g] > 0

\* ---------------------------------------------------------------- Claim C34
\* The sweeper's isDuplicateEvent settles for a record whose identifier has
\* a Processing Record ...
RetriesMarked == sw.pc = "check" /\ sw'.pc # "check" /\ Current.event_id \in kv

\* ... and the removeFailedEvent of a retry that succeeded settles.
RemovesRetried == sw.pc = "remove" /\ sw.success /\ sw' # sw

\* The retry invokes neither enrichWebhookData nor a sink.
SkipsPipeline == sw'.pc = "remove" /\ sw'.success /\ UNCHANGED <<enrichCalls, sinkCalls>>

\* The record is counted as succeeded in the summary of the run.
CountedSucceeded ==
  IF sw.idx < Len(sw.snapshot)
  THEN sw'.results.success = sw.results.success + 1
  ELSE sw' = IdleSweeper

Variants == {"part_003", "square-webhook.js"}

\* The two requests.
Pair == {1, 2}

VariantRequests ==
  [variant : Variants, method : {"POST", "GET"}, read : {TRUE}, json : {TRUE},
   key : BOOLEAN, sig : {"valid", "invalid", "absent"}, at : {"start"}, status : {0}]

VariantEnvelopes == {EvtOrder, EvtOdd, EvtNoId}

VariantInit ==
  /\ cfg \in Configs
  /\ http \in [Pair -> VariantRequests]
  /\ tasks = [t \in Pair |-> IdleTask]
  /\ kv = {} /\ ledger = <<>> /\ clock = 0 /\ sw = IdleSweeper
  /\ sinkCalls = [i \in Ids |-> [g \in Targets |-> 0]]
  /\ enrichCalls = [i \in Ids |-> 0]
  /\ faults = 0 /\ expiries = 0 /\ sweeps = 0
  /\ failedRetries = [m \in {} |-> 0]
  /\ redistributed = {}

\* A handler that calls the pipeline whatever validateSignature answers.
legacyAccepts_Unchecked(req) == req.method = "POST"

\* The handler of square-webhook.js calls processWebhookEvent for a POST
\* when SQUARE_SIGNATURE_KEY is set and validateSignature accepts the
\* header against JSON.stringify(req.body).
legacyAccepts(req) ==
  req.method = "POST" /\ req.key /\ validateSignature(req.sig, req.key)

\* processWebhookEvent of square-webhook.js up to its first await: without
\* event_id it logs and returns, else it awaits isDuplicateEvent.
LegacyInvoked(task, w) ==
  IF w.event_id = "" THEN Done([task EXCEPT !.env = w], "invalid")
  ELSE [task EXCEPT !.pc = "check", !.env = w]

\* The handler of square-webhook.js runs up to its first await: 405 for a
\* method other than POST; else the 200 is sent at once, then the key and
\* the signature are checked, and only then processWebhookEvent is called.
LegacyReceive(t) ==
  /\ http[t].at = "start"
  /\ http' = [http EXCEPT ![t] = [@ EXCEPT !.at = "end",
                                           !.status = IF http[t].method = "POST" THEN 200
                                                       ELSE 405]]
  /\ \E w \in VariantEnvelopes :
       tasks' = [tasks EXCEPT ![t] = IF legacyAccepts(http[t]) THEN LegacyInvoked(@, w) ELSE @]
  /\ UNCHANGED <<cfg, kv, ledger, clock, sw, sinkCalls, enrichCalls, faults,
                 expiries, sweeps, failedRetries, redistributed>>

\* isDuplicateEvent settles: a duplicate returns, otherwise enrichWebhookData
\* is called.
LegacyCheck(t) ==
  /\ tasks[t].pc = "check"
  /\ \E ok \in CallOk :
       LET id == tasks[t].env.event_id
       IN /\ Fault(ok)
          /\ IF isDuplicateEvent(kv, id, ok)
             THEN /\ tasks' = [tasks EXCEPT ![t] = Done(@, "duplicate")]
                  /\ UNCHANGED enrichCalls
             ELSE /\ \E gw \in GatewayOutcomes(tasks[t].env) :
                       tasks' = [tasks EXCEPT ![t] = [@ EXCEPT !.pc = "enrich", !.gw = gw]]
                  /\ enrichCalls' = [enrichCalls EXCEPT ![id] = @ + 1]
  /\ UNCHANGED <<cfg, kv, ledger, clock, sw, sinkCalls, expiries, sweeps, failedRetries,
                 redistributed, http>>

\* enrichWebhookData settles (its own timers bound it; there is no race
\* here) and distributeEvent runs up to Promise.allSettled.  A TypeError of
\* getOrderValue reaches the catch of processWebhookEvent, which awaits
\* storeFailedEvent.  The promise of logToAnalyticsDashboard is fulfilled
\* when it is created; with no other sink invoked allSettled resolves at
\* once and logProcessedEvent is awaited.
LegacyEnrich(t) ==
  /\ tasks[t].pc = "enrich"
  /\ LET w == tasks[t].env
         res == enrichWebhookData(tasks[t].gw)
         gs == IF TypeRaises(w) THEN TargetsBeforeValue(cfg) ELSE EnabledTargets(cfg, w)
     IN /\ sinkCalls' = AddCalls(sinkCalls, w.event_id, gs)
        /\ tasks' = [tasks EXCEPT ![t] =
                       [@ EXCEPT !.pc = CASE TypeRaises(w) -> "store"
                                                [] gs = {"Dashboard"} -> "log"
                                                [] OTHER -> "dist",
                                 !.ctx = res, !.invoked = gs, !.pend = gs \ {"Dashboard"}]]
  /\ UNCHANGED <<cfg, kv, ledger, clock, sw, enrichCalls, faults, expiries,
                 sweeps, failedRetries, redistributed, http>>

\* One sink promise settles; its catch turns a rejection into a fulfilment.
\* With the last one allSettled resolves and logProcessedEvent is awaited.
LegacySinkSettle(t, g) ==
  /\ tasks[t].pc = "dist"
  /\ g \in tasks[t].pend
  /\ tasks' = [tasks EXCEPT ![t] = [@ EXCEPT !.pend = @ \ {g},
                                             !.pc = IF tasks[t].pend = {g} THEN "log"
                                                    ELSE "dist"]]
  /\ UNCHANGED <<cfg, kv, ledger, clock, sw, sinkCalls, enrichCalls, faults,
                 expiries, sweeps, failedRetries, redistributed, http>>

\* logProcessedEvent settles: the Processing Record is written (or the store
\* error logged) and processWebhookEvent returns.
LegacyLog(t) ==
  /\ tasks[t].pc = "log"
  /\ \E ok \in CallOk :
       /\ kv' = logProcessedEvent(kv, tasks[t].env.event_id, ok)
       /\ Fault(ok)
       /\ tasks' = [tasks EXCEPT ![t] = Done([@ EXCEPT !.marks = @ + 1], "processed")]
  /\ UNCHANGED <<cfg, ledger, clock, sw, sinkCalls, enrichCalls, expiries, sweeps,
                 failedRetries, redistributed, http>>

Hub(t) == http[t].variant = "part_003"
Legacy(t) == http[t].variant = "square-webhook.js"

VariantNext ==
  \E t \in Pair :
    \/ Hub(t) /\ Receive(t)
    \/ Hub(t) /\ BodyRead(t)
    \/ Hub(t) /\ CheckAndMark(t)
    \/ Hub(t) /\ EnrichSettle(t)
    \/ Hub(t) /\ \E g \in Targets : SinkSettle(t, g)
    \/ Legacy(t) /\ LegacyReceive(t)
    \/ Legacy(t) /\ LegacyCheck(t)
    \/ Legacy(t) /\ LegacyEnrich(t)
    \/ Legacy(t) /\ \E g \in Targets : LegacySinkSettle(t, g)
    \/ Legacy(t) /\ LegacyLog(t)
    \/ StoreFailed(t)

VariantSpec == VariantInit /\ [][VariantNext]_vars

\* ---------------------------------------------------------------- Claim C35
\* C35: with the duplicate check and the Processing Record write as separate
\* store calls, runs for the same identifier (none of whose store calls
\* throws) produce at most one set of distribution side effects: no target
\* is called twice for the identifier.
C35_CheckThenMarkOnce ==
  faults = 0 =>
    \A id \in Ids : \A g \in Targets :
      (\A t \in Pair : tasks[t].pc # "idle" /\ IdOf(t) = id => Legacy(t))
        => sinkCalls[id][g] <= 1

\* ---------------------------------------------------------------- Claim C36
\* The records of the ledger after the step that were not in it before.
Appended == {i \in 1..Len(ledger') : ~InLedger(ledger, ledger'[i])}

\* The step is the storeFailedEvent of an Ingestion Controller attempt.
ControllerAppends ==
  \E t \in Tasks : tasks[t].pc = "store" /\ tasks'[t].pc = "done" /\ sw' = sw

\* C36: a record enters the Failure Ledger only by the storeFailedEvent of
\* an Ingestion Controller attempt; no step of the Retry Sweeper adds one,
\* so a retry that fails leaves the ledger as it is and no identifier gets a
\* second record from a retry.
C36_SweeperNeverAppends ==
  [][/\ Appended # {} => ControllerAppends
     /\ sw' # sw => /\ Appended = {}
                    /\ Len(ledger') <= Len(ledger)]_vars

\* A retry has failed, the run is over, and the ledger holds the one record
\* it held before.
C36_Witness ==
  /\ sw.pc = "idle" /\ sweeps > 0
  /\ Len(ledger) = 1
  /\ ledger[1] \in DOMAIN failedRetries
  /\ failedRetries[ledger[1]] >= 1
  /\ \A t \in Tasks : tasks[t].stores = 1 => tasks[t].pc = "done"

\* ---------------------------------------------------------------- Claim C37
\* The request carries no signature that validates: the key is not
\* configured, the header is missing, or the signature is wrong.
Unsigned(t) == ~http[t].key \/ http[t].sig \in {"invalid", "absent"}

\* C37: in both handlers the pipeline of a request without a valid
\* signature is never invoked (its task stays as it was created, with no
\* Processing Record write, no sink call and no ledger append of its own),
\* and while no request carries a valid signature nothing at all is written
\* or called.
C37_NoProcessingUnsigned ==
  /\ \A t \in Pair : Unsigned(t) => tasks[t] = IdleTask
  /\ (\A t \in Pair : Unsigned(t)) => (ledger = <<>> /\ \A id \in Ids : NoEffects(id))

\* Both handlers have answered a POST without a valid signature: part_003
\* with 401 for a wrong signature, square-webhook.js with the 200 it sends
\* before validating a request whose header is missing; neither pipeline was
\* invoked.
C37_Witness ==
  \E a, b \in Pair :
    /\ Hub(a) /\ http[a].method = "POST" /\ http[a].key /\ http[a].sig = "invalid"
    /\ http[a].at = "end" /\ http[a].status = 401
    /\ Legacy(b) /\ http[b].method = "POST" /\ http[b].key /\ http[b].sig = "absent"
    /\ http[b].at = "end" /\ http[b].status = 200
    /\ tasks[a].pc = "idle" /\ tasks[b].pc = "idle"

\* ---------------------------------------------------------------- Claim C38
\* The statuses the webhook handler answers with.
HandlerStatuses == {204, 405, 400, 401, 500, 200}

\* C38: the handler sends its response in the step in which it returns, one
\* of 204, 405, 400, 401, 500 and 200 (a getRawBody that rejects is answered
\* 500 by the outer catch); a request that has a response keeps it whatever
\* the pipeline does afterwards, a failing pipeline included.
C38_OneResponse ==
  [][\A t \in DOMAIN http :
       /\ http[t].status # 0 => http'[t].status = http[t].status
       /\ http'[t].at = "end" <=> http'[t].status # 0
       /\ http'[t].status # 0 => http'[t].status \in HandlerStatuses]_vars

\* The 200 was sent, the pipeline failed afterwards and stored a Failure
\* Record, and the response is still the 200.
C38_Witness ==
  \E t \in DOMAIN http :
    /\ http[t].status = 200 /\ http[t].at = "end"
    /\ tasks[t].pc = "done" /\ tasks[t].outcome = "failed" /\ tasks[t].stores = 1
    /\ Len(ledger) = 1

\* ---------------------------------------------------------------- Claim C39
\* The enrichment of task t settles in this step and distributeEvent runs.
Distributes(t) == tasks[t].pc = "enrich" /\ tasks'[t].pc # "enrich"

\* C39: for every Envelope that passed the idempotency check,
\* distributeEvent invokes the log sink exactly once whatever the
\* configuration, and each of the other sinks only when it is configured.
C39_LogSinkUnconditional ==
  [][\A t \in Tasks :
       Distributes(t) =>
         /\ sinkCalls'[IdOf(t)]["Dashboard"] = sinkCalls[IdOf(t)]["Dashboard"] + 1
         /\ \A g \in Targets \ {"Dashboard"} :
              sinkCalls'[IdOf(t)][g] # sinkCalls[IdOf(t)][g] => g \in cfg]_vars

\* =========================================================== RetryFairSpec
\* The retry endpoint under fairness.  Every step of a run is the settling
\* of a call the handler awaits: a store call of @vercel/kv (an HTTP request
\* that answers or fails) or enrichWebhookData (bounded by its own timers);
\* the event loop runs the continuation once the call has settled, so a step
\* that stays enabled is eventually taken.
RetryFairSpec == RetryInit /\ [][RetryNext]_vars /\ WF_vars(RetryNext)

\* ---------------------------------------------------------------- Claim C40
\* The handler of the retry endpoint has answered.
RetryAnswered == http[RetryReq].at = "end"

====
